---- MODULE Spec2Model ----
(***************************************************************************)
(* A model of src/lib/components/common/Collapsible.svelte: the disclosure *)
(* state (open / onChange), the recursive JSON normalizer                   *)
(* (parseJSONString / formatJSONString), the attachment resolution          *)
(* sequencer (updateFileTypes and its probes), the presentation dispatch   *)
(* chain of the template and the label of the header.                       *)
(*                                                                         *)
(* Strings are sequences of one-character strings, so that startsWith,      *)
(* includes, JSON.parse and JSON.stringify are computed character by        *)
(* character.  The only multi-character lexeme is the HTML entity "&quot;",  *)
(* which html-entities' decode() turns into a double quote.                 *)
(***************************************************************************)
EXTENDS Integers, Sequences, FiniteSets, TLC

VARIABLES
  open,              \* export let open                                (l.41)
  disabled,          \* export let disabled                            (l.54)
  hide,              \* export let hide                                (l.55)
  grow,              \* export let grow                                (l.52)
  attributes,        \* export let attributes                          (l.49)
  fileTypes,         \* let fileTypes = {}                             (l.150)
  loadingFileTypes,  \* let loadingFileTypes = {}                      (l.151)
  runs,              \* the suspended updateFileTypes invocations      (l.153)
  gen,               \* history: how many times the caller assigned attributes
  notified,          \* the arguments of the onChange calls made by the last handler (l.59)
  nPc, nIn, nFmt, nOut,      \* the normalizer applied to one input (l.63-85)
  dPc, dFile, dType, dLoading, dBranch,  \* the dispatch chain applied to one item (l.332-405)
  tPc, tBody, tItems,        \* the tool_calls body template applied to the panel's state (l.299-408)
  lPc, lAttr, lTitle, lLabel \* the header label applied to one attribute set (l.181-243)

vars == <<open, disabled, hide, grow, attributes, fileTypes, loadingFileTypes,
          runs, gen, notified, nPc, nIn, nFmt, nOut,
          dPc, dFile, dType, dLoading, dBranch, tPc, tBody, tItems,
          lPc, lAttr, lTitle, lLabel>>

compVars == <<open, disabled, hide, grow, attributes, fileTypes, loadingFileTypes,
              runs, gen, notified>>
normVars == <<nPc, nIn, nFmt, nOut>>
dispVars == <<dPc, dFile, dType, dLoading, dBranch>>
tmplVars == <<tPc, tBody, tItems>>
labelVars == <<lPc, lAttr, lTitle, lLabel>>

----------------------------------------------------------------------------
(* Bounds of the model *)

\* the number of frames the JavaScript stack holds before a call raises RangeError
MaxStack == 4
\* the longest files list the caller supplies
MaxFiles == 2
\* the number of times the caller replaces the attribute set
MaxGen == 2

----------------------------------------------------------------------------
(* JavaScript values.  Every value is a record of the same shape:           *)
(*   t : "str" | "num" | "bool" | "null" | "arr" | "obj"                    *)
(*   n : the number, or 1/0 for true/false                                  *)
(*   s : the characters of a string                                         *)
(*   a : the elements of an array; for an object, key1, value1, key2, ...   *)

JStr(s)  == [t |-> "str",  n |-> 0, s |-> s,    a |-> <<>>]
JNum(n)  == [t |-> "num",  n |-> n, s |-> <<>>, a |-> <<>>]
JBool(b) == [t |-> "bool", n |-> IF b THEN 1 ELSE 0, s |-> <<>>, a |-> <<>>]
JNull    == [t |-> "null", n |-> 0, s |-> <<>>, a |-> <<>>]
JArr(a)  == [t |-> "arr",  n |-> 0, s |-> <<>>, a |-> a]
JObj(a)  == [t |-> "obj",  n |-> 0, s |-> <<>>, a |-> a]
\* undefined: an absent field
JUndef   == [t |-> "undef", n |-> 0, s |-> <<>>, a |-> <<>>]

\* typeof v
TypeOf(v) ==
  CASE v.t = "str"  -> "string"
    [] v.t = "num"  -> "number"
    [] v.t = "bool" -> "boolean"
    [] v.t = "undef" -> "undefined"
    [] OTHER        -> "object"

\* ToBoolean(v)
Truthy(v) ==
  CASE v.t = "str"  -> v.s # <<>>
    [] v.t = "num"  -> v.n # 0
    [] v.t = "bool" -> v.n = 1
    [] v.t = "null" -> FALSE
    [] v.t = "undef" -> FALSE
    [] OTHER        -> TRUE

----------------------------------------------------------------------------
(* Strings *)

Digits == <<"0", "1", "2", "3", "4", "5", "6", "7", "8", "9">>
IsDigit(c) == \E d \in 1..10 : Digits[d] = c
DigitVal(c) == (CHOOSE d \in 1..10 : Digits[d] = c) - 1

RECURSIVE NatToChars(_)
NatToChars(n) ==
  IF n < 10 THEN <<Digits[n + 1]>>
  ELSE NatToChars(n \div 10) \o <<Digits[(n % 10) + 1]>>

\* Number.prototype.toString for an integer
NumToChars(n) == IF n < 0 THEN <<"-">> \o NatToChars(0 - n) ELSE NatToChars(n)

\* String.prototype.startsWith
StartsWith(s, p) == Len(s) >= Len(p) /\ SubSeq(s, 1, Len(p)) = p

\* String.prototype.includes
Includes(s, p) ==
  \E k \in 0..(Len(s) - Len(p)) : SubSeq(s, k + 1, k + Len(p)) = p

\* the characters p at position i of s
HasAt(s, i, p) == i + Len(p) - 1 <= Len(s) /\ SubSeq(s, i, i + Len(p) - 1) = p

----------------------------------------------------------------------------
(* JSON.stringify and JSON.parse, on the subset of JSON the model's values  *)
(* use: strings (escapes \" \\ \/ \n), integers, true, false, null, arrays  *)
(* and objects; white space is the space and the line feed.                 *)

NL == "\n"
QUOTE == "\""
BSLASH == "\\"

RECURSIVE QuoteChars(_)
QuoteChars(s) ==
  IF s = <<>> THEN <<>>
  ELSE (CASE Head(s) = QUOTE  -> <<BSLASH, QUOTE>>
          [] Head(s) = BSLASH -> <<BSLASH, BSLASH>>
          [] Head(s) = NL     -> <<BSLASH, "n">>
          [] OTHER            -> <<Head(s)>>) \o QuoteChars(Tail(s))

\* JSON.stringify of a string: the quoted, escaped string
Quote(s) == <<QUOTE>> \o QuoteChars(s) \o <<QUOTE>>

RECURSIVE Spaces(_)
Spaces(n) == IF n <= 0 THEN <<>> ELSE <<" ">> \o Spaces(n - 1)

RECURSIVE StringifyInd(_, _, _), StringifyElems(_, _, _, _), StringifyMembers(_, _, _, _)
\* JSON.stringify(v, null, step) at indentation cur; step = 0 is JSON.stringify(v)
StringifyInd(v, step, cur) ==
  CASE v.t = "str"  -> Quote(v.s)
    [] v.t = "num"  -> NumToChars(v.n)
    [] v.t = "bool" -> IF v.n = 1 THEN <<"t", "r", "u", "e">> ELSE <<"f", "a", "l", "s", "e">>
    [] v.t = "null" -> <<"n", "u", "l", "l">>
    [] v.t = "arr"  ->
         IF v.a = <<>> THEN <<"[", "]">>
         ELSE <<"[">> \o StringifyElems(v.a, 1, step, cur + step)
              \o (IF step > 0 THEN <<NL>> \o Spaces(cur) ELSE <<>>) \o <<"]">>
    [] OTHER ->
         IF v.a = <<>> THEN <<"{", "}">>
         ELSE <<"{">> \o StringifyMembers(v.a, 1, step, cur + step)
              \o (IF step > 0 THEN <<NL>> \o Spaces(cur) ELSE <<>>) \o <<"}">>

StringifyElems(a, k, step, cur) ==
  IF k > Len(a) THEN <<>>
  ELSE (IF k > 1 THEN <<",">> ELSE <<>>)
       \o (IF step > 0 THEN <<NL>> \o Spaces(cur) ELSE <<>>)
       \o StringifyInd(a[k], step, cur)
       \o StringifyElems(a, k + 1, step, cur)

StringifyMembers(a, k, step, cur) ==
  IF k > Len(a) THEN <<>>
  ELSE (IF k > 1 THEN <<",">> ELSE <<>>)
       \o (IF step > 0 THEN <<NL>> \o Spaces(cur) ELSE <<>>)
       \o Quote(a[k].s) \o <<":">> \o (IF step > 0 THEN <<" ">> ELSE <<>>)
       \o StringifyInd(a[k + 1], step, cur)
       \o StringifyMembers(a, k + 2, step, cur)

\* JSON.stringify(v)
Stringify(v) == StringifyInd(v, 0, 0)

\* JSON.stringify(v, null, 2)
Stringify2(v) == StringifyInd(v, 2, 0)

RECURSIVE JoinComma(_, _)
\* String(v): the StringOf conversion JSON.parse applies to its argument
StringOf(v) ==
  CASE v.t = "str"  -> v.s
    [] v.t = "num"  -> NumToChars(v.n)
    [] v.t = "bool" -> IF v.n = 1 THEN <<"t", "r", "u", "e">> ELSE <<"f", "a", "l", "s", "e">>
    [] v.t = "null" -> <<"n", "u", "l", "l">>
    [] v.t = "arr"  -> JoinComma(v.a, 1)
    [] OTHER        -> <<"[", "o", "b", "j", "e", "c", "t", " ", "O", "b", "j", "e", "c", "t", "]">>

\* Array.prototype.join(","): null elements give the empty string
JoinComma(a, k) ==
  IF k > Len(a) THEN <<>>
  ELSE (IF k > 1 THEN <<",">> ELSE <<>>)
       \o (IF a[k].t = "null" THEN <<>> ELSE StringOf(a[k]))
       \o JoinComma(a, k + 1)

IsWs(c) == c = " " \/ c = NL

RECURSIVE SkipWs(_, _)
SkipWs(s, i) == IF i <= Len(s) /\ IsWs(s[i]) THEN SkipWs(s, i + 1) ELSE i

\* the result of a parse: ok, the value, and the position after it
ParseFail == [ok |-> FALSE, v |-> JNull, i |-> 0]
ParseOk(v, i) == [ok |-> TRUE, v |-> v, i |-> i]

RECURSIVE ParseDigits(_, _, _)
ParseDigits(s, i, acc) ==
  IF i <= Len(s) /\ IsDigit(s[i]) THEN ParseDigits(s, i + 1, acc * 10 + DigitVal(s[i]))
  ELSE ParseOk(JNum(acc), i)

\* a JSON integer from position i: no leading zero
ParseNat(s, i) ==
  IF i > Len(s) \/ ~IsDigit(s[i]) THEN ParseFail
  ELSE IF s[i] = "0" THEN ParseOk(JNum(0), i + 1)
  ELSE ParseDigits(s, i, 0)

RECURSIVE ParseStringBody(_, _, _)
\* the characters of a JSON string after its opening quote
ParseStringBody(s, i, acc) ==
  IF i > Len(s) THEN ParseFail
  ELSE IF s[i] = QUOTE THEN ParseOk(JStr(acc), i + 1)
  ELSE IF s[i] = NL THEN ParseFail
  ELSE IF s[i] = BSLASH THEN
    IF i + 1 > Len(s) THEN ParseFail
    ELSE IF s[i + 1] \in {QUOTE, BSLASH, "/"} THEN ParseStringBody(s, i + 2, Append(acc, s[i + 1]))
    ELSE IF s[i + 1] = "n" THEN ParseStringBody(s, i + 2, Append(acc, NL))
    ELSE ParseFail
  ELSE ParseStringBody(s, i + 1, Append(acc, s[i]))

RECURSIVE ParseValue(_, _), ParseElems(_, _, _), ParseMembers(_, _, _)
ParseValue(s, i) ==
  IF i > Len(s) THEN ParseFail
  ELSE IF s[i] = QUOTE THEN ParseStringBody(s, i + 1, <<>>)
  ELSE IF s[i] = "[" THEN
    LET j == SkipWs(s, i + 1) IN
    IF j <= Len(s) /\ s[j] = "]" THEN ParseOk(JArr(<<>>), j + 1)
    ELSE ParseElems(s, j, <<>>)
  ELSE IF s[i] = "{" THEN
    LET j == SkipWs(s, i + 1) IN
    IF j <= Len(s) /\ s[j] = "}" THEN ParseOk(JObj(<<>>), j + 1)
    ELSE ParseMembers(s, j, <<>>)
  ELSE IF s[i] = "-" THEN
    LET r == ParseNat(s, i + 1) IN
    IF r.ok THEN ParseOk(JNum(0 - r.v.n), r.i) ELSE ParseFail
  ELSE IF IsDigit(s[i]) THEN ParseNat(s, i)
  ELSE IF HasAt(s, i, <<"t", "r", "u", "e">>) THEN ParseOk(JBool(TRUE), i + 4)
  ELSE IF HasAt(s, i, <<"f", "a", "l", "s", "e">>) THEN ParseOk(JBool(FALSE), i + 5)
  ELSE IF HasAt(s, i, <<"n", "u", "l", "l">>) THEN ParseOk(JNull, i + 4)
  ELSE ParseFail

\* the elements of an array from the value at i to the closing bracket
ParseElems(s, i, acc) ==
  LET r == ParseValue(s, i) IN
  IF ~r.ok THEN ParseFail
  ELSE LET j == SkipWs(s, r.i) IN
    IF j > Len(s) THEN ParseFail
    ELSE IF s[j] = "," THEN ParseElems(s, SkipWs(s, j + 1), Append(acc, r.v))
    ELSE IF s[j] = "]" THEN ParseOk(JArr(Append(acc, r.v)), j + 1)
    ELSE ParseFail

\* the members of an object from the key at i to the closing brace
ParseMembers(s, i, acc) ==
  IF i > Len(s) \/ s[i] # QUOTE THEN ParseFail
  ELSE LET k == ParseStringBody(s, i + 1, <<>>) IN
    IF ~k.ok THEN ParseFail
    ELSE LET c == SkipWs(s, k.i) IN
      IF c > Len(s) \/ s[c] # ":" THEN ParseFail
      ELSE LET r == ParseValue(s, SkipWs(s, c + 1)) IN
        IF ~r.ok THEN ParseFail
        ELSE LET j == SkipWs(s, r.i) IN
          IF j > Len(s) THEN ParseFail
          ELSE IF s[j] = "," THEN ParseMembers(s, SkipWs(s, j + 1), acc \o <<k.v, r.v>>)
          ELSE IF s[j] = "}" THEN ParseOk(JObj(acc \o <<k.v, r.v>>), j + 1)
          ELSE ParseFail

\* JSON.parse(v): v is converted to a string first; ok = FALSE is a SyntaxError
JSONParse(v) ==
  LET s == StringOf(v)
      r == ParseValue(s, SkipWs(s, 1))
  IN IF r.ok /\ SkipWs(s, r.i) = Len(s) + 1 THEN r ELSE ParseFail

----------------------------------------------------------------------------
(* The recursive JSON normalizer *)

RECURSIVE ParseJSONStringAt(_, _)
\* parseJSONString(str) with `depth` stack frames left: a call that finds no
\* frame left raises RangeError, which the caller's catch turns into its str
ParseJSONStringAt(str, depth) ==
  IF depth = 0 THEN str
  ELSE LET r == JSONParse(str) IN
    IF r.ok THEN ParseJSONStringAt(r.v, depth - 1) ELSE str

ParseJSONString(str) == ParseJSONStringAt(str, MaxStack)

FormatJSONString(str) ==
  LET parsed == ParseJSONString(str) IN
  IF TypeOf(parsed) = "object" THEN Stringify2(parsed)
  ELSE Quote(StringOf(parsed))

----------------------------------------------------------------------------
(* The normalizer applied to one input: SpecNorm *)

\* the lists and objects the inputs are built from
NormStructured ==
  { JArr(<<>>), JArr(<<JNum(5)>>), JArr(<<JNum(1), JNum(2)>>), JArr(<<JNull>>),
    JArr(<<JBool(TRUE)>>), JArr(<<JStr(<<"a">>)>>), JArr(<<JStr(<<"7">>)>>),
    JArr(<<JStr(<<"[", "1", ",", "2", "]">>)>>), JArr(<<JArr(<<JNum(1), JNum(2)>>)>>),
    JArr(<<JArr(<<JNum(3)>>)>>), JArr(<<JStr(<<"a">>), JStr(<<"b">>)>>),
    JArr(<<JObj(<<JStr(<<"k">>), JNum(1)>>)>>),
    JObj(<<>>), JObj(<<JStr(<<"k">>), JNum(1)>>),
    JObj(<<JStr(<<"k">>), JArr(<<JNum(1)>>)>>),
    JObj(<<JStr(<<"k">>), JStr(<<"v">>), JStr(<<"m">>), JNull>>) }

\* strings that are not JSON text
NormPlain ==
  { <<>>, <<"n", "o", "t", " ", "j", "s", "o", "n">>, <<"a">>, <<"[", "1", ",">>,
    <<"{", "k", "}">>, <<"0", "1">>, <<"t", "r", "u">> }

\* JSON text of primitives
NormPrimitiveText ==
  { <<"5">>, <<"-", "3">>, <<"0">>, <<"t", "r", "u", "e">>, <<"f", "a", "l", "s", "e">>,
    <<"n", "u", "l", "l">>, Quote(<<"a">>), Quote(<<"5">>), <<" ", "1", "2", " ">> }

NormInputs ==
  NormStructured
  \cup { JStr(Stringify(x)) : x \in NormStructured }
  \cup { JStr(Stringify2(x)) : x \in NormStructured }
  \cup { JStr(Stringify(JStr(Stringify(x)))) : x \in NormStructured }
  \cup { JStr(s) : s \in NormPlain \cup NormPrimitiveText }

NormInit ==
  /\ nPc = "pick" /\ nIn = JNull /\ nFmt = <<>> /\ nOut = JNull

NormPick ==
  /\ nPc = "pick"
  /\ \E x \in NormInputs : nIn' = x
  /\ nPc' = "format"
  /\ UNCHANGED <<nFmt, nOut>>

\* const s = formatJSONString(nIn)
NormFormat ==
  /\ nPc = "format"
  /\ nFmt' = FormatJSONString(nIn)
  /\ nPc' = "parse"
  /\ UNCHANGED <<nIn, nOut>>

\* parseJSONString(s)
NormParse ==
  /\ nPc = "parse"
  /\ nOut' = ParseJSONString(JStr(nFmt))
  /\ nPc' = "done"
  /\ UNCHANGED <<nIn, nFmt>>

NormReset ==
  /\ nPc = "done"
  /\ nPc' = "pick"
  /\ UNCHANGED <<nIn, nFmt, nOut>>

----------------------------------------------------------------------------
(* URL classification and the content-type probe *)

\* isDataUrl(url), for a string
IsDataUrl(url) == StartsWith(url, <<"d", "a", "t", "a", ":">>)

RECURSIVE UpToSemicolon(_, _)
UpToSemicolon(s, i) ==
  IF i > Len(s) \/ s[i] = ";" THEN <<>> ELSE <<s[i]>> \o UpToSemicolon(s, i + 1)

\* getDataUrlMimeType(dataUrl): the match of /^data:([^;]+)/, or ''
GetDataUrlMimeType(dataUrl) ==
  IF IsDataUrl(dataUrl) THEN UpToSemicolon(dataUrl, 6) ELSE <<>>

\* what the network does with a probe: a response whose content-type header is
\* h, a response without the header, or a failed request
ServerTypes == { <<"i", "m", "a", "g", "e", "/", "p", "n", "g">> }
ProbeOutcomes ==
  { [kind |-> "header", value |-> h] : h \in ServerTypes }
  \cup { [kind |-> "noheader", value |-> <<>>], [kind |-> "error", value |-> <<>>] }

\* GetContentTypeFromServer without the `|| ''` of l.116: a response without
\* the header yields null, kept as its text
GetContentTypeNoDefault(outcome) ==
  IF outcome.kind = "header" THEN outcome.value
  ELSE IF outcome.kind = "noheader" THEN <<"n", "u", "l", "l">>
  ELSE <<>>

\* getContentTypeFromServer(url), given the outcome of its fetch
GetContentTypeFromServer(outcome) ==
  IF outcome.kind = "header" THEN outcome.value ELSE <<>>

\* the awaited determineFileType(file): its promise is pending on the fetch
\* of getContentTypeFromServer, or already resolved with a result
Fetching == [state |-> "fetching", result |-> <<>>]
Ready(r) == [state |-> "ready", result |-> r]

\* determineFileType(file) up to its first suspension, for a string
DetermineFileType(file) ==
  IF IsDataUrl(file) THEN Ready(GetDataUrlMimeType(file))
  ELSE IF file # <<>> THEN Fetching
  ELSE Ready(<<>>)

----------------------------------------------------------------------------
(* The presentation dispatch chain *)

\* DispatchChain with the text test before the pdf test
DispatchChainTextFirst(file, contentType, isLoading) ==
  IF isLoading THEN "loading"
  ELSE IF StartsWith(contentType, <<"i", "m", "a", "g", "e", "/">>) THEN "image"
  ELSE IF StartsWith(contentType, <<"a", "u", "d", "i", "o", "/">>) THEN "audio"
  ELSE IF StartsWith(contentType, <<"v", "i", "d", "e", "o", "/">>) THEN "video"
  ELSE IF \/ StartsWith(contentType, <<"t", "e", "x", "t", "/">>)
          \/ Includes(contentType, <<"j", "s", "o", "n">>)
          \/ Includes(contentType, <<"x", "m", "l">>) THEN "text"
  ELSE IF Includes(contentType, <<"p", "d", "f">>) THEN "document"
  ELSE IF file # <<>> THEN "generic"
  ELSE "nothing"

\* the {#if} chain of one {#each} item
DispatchChain(file, contentType, isLoading) ==
  IF isLoading THEN "loading"
  ELSE IF StartsWith(contentType, <<"i", "m", "a", "g", "e", "/">>) THEN "image"
  ELSE IF StartsWith(contentType, <<"a", "u", "d", "i", "o", "/">>) THEN "audio"
  ELSE IF StartsWith(contentType, <<"v", "i", "d", "e", "o", "/">>) THEN "video"
  ELSE IF Includes(contentType, <<"p", "d", "f">>) THEN "document"
  ELSE IF \/ StartsWith(contentType, <<"t", "e", "x", "t", "/">>)
          \/ Includes(contentType, <<"j", "s", "o", "n">>)
          \/ Includes(contentType, <<"x", "m", "l">>) THEN "text"
  ELSE IF file # <<>> THEN "generic"
  ELSE "nothing"

\* one item of the {#each}: displayUrl calls file.startsWith, a TypeError when
\* file is not a string
Dispatch(file, contentType, isLoading) ==
  IF file.t # "str" THEN "error" ELSE DispatchChain(file.s, contentType, isLoading)

----------------------------------------------------------------------------
(* The dispatch chain applied to one item: SpecDispatch *)

DispatchFiles ==
  { JStr(<<>>), JStr(<<"/", "f">>), JStr(<<"d", "a", "t", "a", ":", "t", "e", "x", "t", "/", "x", "m", "l", ";", ",", "x">>), JStr(<<"d", "a", "t", "a", ":", "i", "m", "a", "g", "e", "/", "p", "n", "g", ";", ",", "x">>) }

DispatchTypes ==
  { <<>>, <<"i", "m", "a", "g", "e", "/", "p", "n", "g">>, <<"i", "m", "a", "g", "e", "/", "s", "v", "g", "+", "x", "m", "l">>, <<"i", "m", "a", "g", "e", "/", "p", "d", "f">>, <<"a", "u", "d", "i", "o", "/", "o", "g", "g">>, <<"a", "u", "d", "i", "o", "/", "x", "m", "l">>,
    <<"v", "i", "d", "e", "o", "/", "m", "p", "4">>, <<"v", "i", "d", "e", "o", "/", "p", "d", "f">>, <<"a", "p", "p", "l", "i", "c", "a", "t", "i", "o", "n", "/", "p", "d", "f">>, <<"t", "e", "x", "t", "/", "p", "d", "f">>, <<"a", "p", "p", "l", "i", "c", "a", "t", "i", "o", "n", "/", "p", "d", "f", "+", "j", "s", "o", "n">>,
    <<"t", "e", "x", "t", "/", "p", "l", "a", "i", "n">>, <<"a", "p", "p", "l", "i", "c", "a", "t", "i", "o", "n", "/", "j", "s", "o", "n">>, <<"a", "p", "p", "l", "i", "c", "a", "t", "i", "o", "n", "/", "x", "m", "l">>, <<"a", "p", "p", "l", "i", "c", "a", "t", "i", "o", "n", "/", "z", "i", "p">>,
    <<"x", "i", "m", "a", "g", "e", "/">>, <<"p", "d">> }

DispInit ==
  /\ dPc = "pick" /\ dFile = JStr(<<>>) /\ dType = <<>> /\ dLoading = FALSE /\ dBranch = "nothing"

DispPick ==
  /\ dPc = "pick"
  /\ \E f \in DispatchFiles, c \in DispatchTypes, l \in BOOLEAN :
       /\ dFile' = f /\ dType' = c /\ dLoading' = l
  /\ dPc' = "render"
  /\ UNCHANGED dBranch

DispRender ==
  /\ dPc = "render"
  /\ dBranch' = Dispatch(dFile, dType, dLoading)
  /\ dPc' = "pick"
  /\ UNCHANGED <<dFile, dType, dLoading>>

----------------------------------------------------------------------------
(* The attribute set *)

\* html-entities' decode(): the entity &quot; becomes a double quote
Decode(s) == [k \in 1..Len(s) |-> IF s[k] = "&quot;" THEN QUOTE ELSE s[k]]

\* the caller's HTML escaping of an attribute value
HtmlEncode(s) == [k \in 1..Len(s) |-> IF s[k] = QUOTE THEN "&quot;" ELSE s[k]]

\* attributes = null reads as every field absent; type and done are strings,
\* "undefined" when absent, and files is a string value or undefined
Absent == "undefined"
NullAttributes == [type |-> Absent, done |-> Absent, files |-> JUndef]

RemoteRef == JStr(<<"/", "f">>)
InlineRef == JStr(<<"d", "a", "t", "a", ":", "t", "e", "x", "t", "/", "x", "m", "l", ";", ",", "x">>)

RECURSIVE RemoteList(_)
RemoteList(n) == IF n = 0 THEN <<>> ELSE Append(RemoteList(n - 1), RemoteRef)

\* the decoded values of the files field the caller supplies
FilesValues ==
  { JArr(RemoteList(n)) : n \in 0..MaxFiles }
  \cup { JArr(<<InlineRef>>), JArr(<<RemoteRef, InlineRef>>), JArr(<<RemoteRef, JNum(5)>>) }

\* the files field as the caller writes it: HTML-escaped JSON text
FilesField(v) == JStr(HtmlEncode(Stringify(v)))

AttributeSets ==
  { [type |-> "tool_calls", done |-> "true", files |-> FilesField(v)] : v \in FilesValues }
  \cup { [type |-> "tool_calls", done |-> "false", files |-> FilesField(JArr(RemoteList(1)))] }

\* parseJSONString(decode(attributes?.files ?? ''))
DecodedFiles(a) ==
  ParseJSONString(JStr(Decode(IF a.files.t = "undef" THEN <<>> ELSE a.files.s)))

\* the elements files[0], files[1], ... below files.length; an object that is
\* no array has no length, and a loop over it runs no iteration
Elements(files) == IF files.t = "arr" THEN files.a ELSE <<>>

----------------------------------------------------------------------------
(* The resolution state.  A map from index to value ({} in the source) is a *)
(* sequence: the value of key i is at position i + 1; every map the code    *)
(* builds has the keys 0..n-1 for some n.                                   *)

\* {...a, ...b}
Spread(a, b) ==
  [k \in 1..(IF Len(a) > Len(b) THEN Len(a) ELSE Len(b)) |-> IF k <= Len(b) THEN b[k] ELSE a[k]]

\* m[i] = v, for i <= the number of keys
SetKey(m, i, v) == IF i + 1 <= Len(m) THEN [m EXCEPT ![i + 1] = v] ELSE Append(m, v)

\* fileTypes[idx] || ''
ContentTypeAt(idx) == IF idx + 1 <= Len(fileTypes) THEN fileTypes[idx + 1] ELSE <<>>

\* loadingFileTypes[idx] || false
IsLoadingAt(idx) == IF idx + 1 <= Len(loadingFileTypes) THEN loadingFileTypes[idx + 1] ELSE FALSE

\* Iterate with fileTypes published at every suspension
IteratePublishesTypes(files, i, newFileTypes, newLoadingStates, ft, ls, g) ==
  IF i >= Len(files)
  THEN [st |-> "done", run |-> <<>>, fileTypes |-> newFileTypes, loadingFileTypes |-> newLoadingStates]
  ELSE LET file == files[i + 1] IN
    IF file.t # "str"
    THEN [st |-> "thrown", run |-> <<>>, fileTypes |-> ft, loadingFileTypes |-> ls]
    ELSE LET remote == ~IsDataUrl(file.s)
             nls == IF remote THEN SetKey(newLoadingStates, i, TRUE) ELSE newLoadingStates
         IN [st |-> "await",
             run |-> <<[files |-> files, i |-> i, newFileTypes |-> newFileTypes,
                        newLoadingStates |-> nls, pending |-> DetermineFileType(file.s),
                        gen |-> g]>>,
             fileTypes |-> Spread(ft, newFileTypes),
             loadingFileTypes |-> IF remote THEN Spread(ls, nls) ELSE ls]

\* one iteration of the loop of updateFileTypes from the test i < files.length
\* to the await, with the maps ft and ls published: the run suspends ("await"),
\* returns after the two final assignments ("done"), or throws the TypeError of
\* isDataUrl(file) on a file that is no string ("thrown")
Iterate(files, i, newFileTypes, newLoadingStates, ft, ls, g) ==
  IF i >= Len(files)
  THEN [st |-> "done", run |-> <<>>, fileTypes |-> newFileTypes, loadingFileTypes |-> newLoadingStates]
  ELSE LET file == files[i + 1] IN
    IF file.t # "str"
    THEN [st |-> "thrown", run |-> <<>>, fileTypes |-> ft, loadingFileTypes |-> ls]
    ELSE LET remote == ~IsDataUrl(file.s)
             nls == IF remote THEN SetKey(newLoadingStates, i, TRUE) ELSE newLoadingStates
         IN [st |-> "await",
             run |-> <<[files |-> files, i |-> i, newFileTypes |-> newFileTypes,
                        newLoadingStates |-> nls, pending |-> DetermineFileType(file.s),
                        gen |-> g]>>,
             fileTypes |-> ft,
             loadingFileTypes |-> IF remote THEN Spread(ls, nls) ELSE ls]

\* updateFileTypes(files) up to its first suspension
UpdateFileTypes(files, ft, ls, g) ==
  IF TypeOf(files) = "object" /\ Truthy(files)
  THEN Iterate(Elements(files), 0, <<>>, <<>>, ft, ls, g)
  ELSE [st |-> "skipped", run |-> <<>>, fileTypes |-> ft, loadingFileTypes |-> ls]

\* ReactiveFiles without the test of done
ReactiveFilesAnyDone(a, ft, ls, g) ==
  IF Truthy(DecodedFiles(a))
  THEN UpdateFileTypes(DecodedFiles(a), ft, ls, g)
  ELSE [st |-> "skipped", run |-> <<>>, fileTypes |-> ft, loadingFileTypes |-> ls]

\* the reactive block on attributes
ReactiveFiles(a, ft, ls, g) ==
  IF a.done = "true" /\ Truthy(DecodedFiles(a))
  THEN UpdateFileTypes(DecodedFiles(a), ft, ls, g)
  ELSE [st |-> "skipped", run |-> <<>>, fileTypes |-> ft, loadingFileTypes |-> ls]

\* Continue without i++
ContinueSameIndex(r, result, ft, ls) ==
  Iterate(r.files, r.i,
          SetKey(r.newFileTypes, r.i, result),
          SetKey(r.newLoadingStates, r.i, FALSE),
          ft, ls, r.gen)

\* Continue without newLoadingStates[i] = false
ContinueLeavesLoading(r, result, ft, ls) ==
  Iterate(r.files, r.i + 1,
          SetKey(r.newFileTypes, r.i, result),
          r.newLoadingStates,
          ft, ls, r.gen)

\* the continuation of a run after its await returned `result`: the two
\* assignments that end the iteration, i++, and the next iteration
Continue(r, result, ft, ls) ==
  Iterate(r.files, r.i + 1,
          SetKey(r.newFileTypes, r.i, result),
          SetKey(r.newLoadingStates, r.i, FALSE),
          ft, ls, r.gen)

RemoveAt(s, k) == SubSeq(s, 1, k - 1) \o SubSeq(s, k + 1, Len(s))

----------------------------------------------------------------------------
(* The body template of a tool call *)

\* {#if !grow}{#if open && !hide} ... the Markdown block of arguments and result
ToolCallsBody ==
  attributes.type = "tool_calls" /\ ~grow /\ open /\ ~hide

\* AttachmentItems inside the {#if open && !hide} block
AttachmentItemsWhenOpen ==
  LET files == DecodedFiles(attributes) IN
  IF /\ attributes.type = "tool_calls" /\ ~grow /\ open /\ ~hide
     /\ attributes.done = "true" /\ TypeOf(files) = "object"
  THEN [k \in 1..Len(Elements(files)) |->
          Dispatch(Elements(files)[k], ContentTypeAt(k - 1), IsLoadingAt(k - 1))]
  ELSE <<>>

\* {#if !grow} ... {#if attributes?.done === 'true'}{#if typeof files === 'object'}
\* {#each files ?? [] as file, idx}: the branch of every index
AttachmentItems ==
  LET files == DecodedFiles(attributes) IN
  IF attributes.type = "tool_calls" /\ ~grow /\ attributes.done = "true" /\ TypeOf(files) = "object"
  THEN [k \in 1..Len(Elements(files)) |->
          Dispatch(Elements(files)[k], ContentTypeAt(k - 1), IsLoadingAt(k - 1))]
  ELSE <<>>

TmplInit == tPc = "idle" /\ tBody = FALSE /\ tItems = <<>>

----------------------------------------------------------------------------
(* The header label: SpecLabel parts *)

\* attributes.duration < 60
SecondsLimit == 60

\* ToNumber of a number or of a string of digits
ToNumber(v) == IF v.t = "num" THEN v.n ELSE ParseDigits(v.s, 1, 0).v.n

\* a label: the key handed to $i18n.t, or "title" for {title}, and the value
\* of its placeholder; the key "" when the header is not rendered
Label(key, arg) == [key |-> key, arg |-> arg]
NoLabel == Label("", JUndef)

\* dayjs.duration(d, 'seconds').humanize() is the library's: the label keeps d
\* {#if title !== null} ... {#if attributes?.type === 'reasoning'} ... {title}
HeaderLabel(attr, title) ==
  IF title.t = "null" THEN NoLabel
  ELSE IF attr.type = "reasoning" THEN
    IF attr.done = "true" /\ Truthy(attr.duration) THEN
      IF ToNumber(attr.duration) < SecondsLimit
      THEN Label("Thought for {{DURATION}} seconds", attr.duration)
      ELSE Label("Thought for {{DURATION}}", attr.duration)
    ELSE Label("Thinking...", JUndef)
  ELSE IF attr.type = "code_interpreter" THEN
    IF attr.done = "true" THEN Label("Analyzed", JUndef) ELSE Label("Analyzing...", JUndef)
  ELSE IF attr.type = "tool_calls" THEN
    IF attr.done = "true"
    THEN Label("View Result from **{{NAME}}**", attr.name)
    ELSE Label("Executing **{{NAME}}**...", attr.name)
  ELSE Label("title", title)

\* the durations the caller supplies: absent, a number of seconds, or the
\* text of an HTML attribute
LabelDurations ==
  { JUndef, JNum(0), JNum(5), JNum(59), JNum(60), JNum(90),
    JStr(<<>>), JStr(<<"0">>), JStr(<<"7">>), JStr(<<"6", "1">>) }

LabelAttributes ==
  [ type : {Absent, "reasoning", "code_interpreter", "tool_calls"},
    done : {Absent, "false", "true"},
    duration : LabelDurations,
    name : {JStr(<<"t">>)} ]

LabelTitles == { JNull, JStr(<<"T">>) }

LabelInit ==
  /\ lPc = "pick"
  /\ lAttr = [type |-> Absent, done |-> Absent, duration |-> JUndef, name |-> JStr(<<"t">>)]
  /\ lTitle = JNull
  /\ lLabel = NoLabel

LabelPick ==
  /\ lPc = "pick"
  /\ lAttr' \in LabelAttributes
  /\ lTitle' \in LabelTitles
  /\ lPc' = "render"
  /\ UNCHANGED lLabel

LabelRender ==
  /\ lPc = "render"
  /\ lLabel' = HeaderLabel(lAttr, lTitle)
  /\ lPc' = "pick"
  /\ UNCHANGED <<lAttr, lTitle>>

----------------------------------------------------------------------------
(* The component: Spec.  The handlers and the resolution runs of one panel. *)
(* A handler runs to its next suspension in one step: the script is         *)
(* single-threaded, and the only suspension points are the awaits of        *)
(* updateFileTypes.  hide and grow are read by the template alone; they     *)
(* keep their defaults here and take every value in SpecTemplate.           *)

\* construction: the props open and disabled as the caller passes them, the
\* defaults of the others, and the first run of $: onChange(open)
Init ==
  /\ open \in BOOLEAN
  /\ disabled \in BOOLEAN
  /\ hide = FALSE
  /\ grow = FALSE
  /\ attributes = NullAttributes
  /\ fileTypes = <<>>
  /\ loadingFileTypes = <<>>
  /\ runs = <<>>
  /\ gen = 0
  /\ notified = <<open>>
  /\ NormInit
  /\ DispInit
  /\ TmplInit
  /\ LabelInit

\* PointerUp with onChange called before the assignment, with the old value
PointerUpNotifiesOld ==
  /\ open' = IF ~disabled THEN ~open ELSE open
  /\ notified' = IF ~disabled THEN <<open>> ELSE <<>>
  /\ UNCHANGED <<disabled, hide, grow, attributes, fileTypes, loadingFileTypes, runs, gen>>

\* PointerUp without the test of disabled
PointerUpIgnoresDisabled ==
  /\ open' = ~open
  /\ notified' = <<~open>>
  /\ UNCHANGED <<disabled, hide, grow, attributes, fileTypes, loadingFileTypes, runs, gen>>

\* on:pointerup of the header, and the reactive onChange(open) it schedules
PointerUp ==
  /\ open' = IF ~disabled THEN ~open ELSE open
  /\ notified' = IF ~disabled THEN <<~open>> ELSE <<>>
  /\ UNCHANGED <<disabled, hide, grow, attributes, fileTypes, loadingFileTypes, runs, gen>>

\* the caller assigns the prop open
SetOpen ==
  /\ \E v \in BOOLEAN :
       /\ open' = v
       /\ notified' = IF v # open THEN <<v>> ELSE <<>>
  /\ UNCHANGED <<disabled, hide, grow, attributes, fileTypes, loadingFileTypes, runs, gen>>

\* the caller assigns the prop disabled
SetDisabled ==
  /\ disabled' = ~disabled
  /\ notified' = <<>>
  /\ UNCHANGED <<open, hide, grow, attributes, fileTypes, loadingFileTypes, runs, gen>>

\* SetAttributes with the panel closed again by every new attribute set
SetAttributesCloses ==
  /\ gen < MaxGen
  /\ \E a \in AttributeSets :
       LET r == ReactiveFiles(a, fileTypes, loadingFileTypes, gen + 1) IN
       /\ attributes' = a
       /\ fileTypes' = r.fileTypes
       /\ loadingFileTypes' = r.loadingFileTypes
       /\ runs' = runs \o r.run
  /\ gen' = gen + 1
  /\ open' = FALSE
  /\ notified' = IF open THEN <<FALSE>> ELSE <<>>
  /\ UNCHANGED <<disabled, hide, grow>>

\* the caller assigns the prop attributes; the reactive block runs
SetAttributes ==
  /\ gen < MaxGen
  /\ \E a \in AttributeSets :
       LET r == ReactiveFiles(a, fileTypes, loadingFileTypes, gen + 1) IN
       /\ attributes' = a
       /\ fileTypes' = r.fileTypes
       /\ loadingFileTypes' = r.loadingFileTypes
       /\ runs' = runs \o r.run
  /\ gen' = gen + 1
  /\ notified' = <<>>
  /\ UNCHANGED <<open, disabled, hide, grow>>

\* the continuation of run k publishes r and suspends again, returns or throws
Resumed(k, r) ==
  /\ fileTypes' = r.fileTypes
  /\ loadingFileTypes' = r.loadingFileTypes
  /\ runs' = IF r.st = "await" THEN [runs EXCEPT ![k] = r.run[1]] ELSE RemoveAt(runs, k)
  /\ notified' = <<>>
  /\ UNCHANGED <<open, disabled, hide, grow, attributes, gen>>

\* the fetch of run k settles, getContentTypeFromServer returns and the run
\* resumes after its await
ProbeReturn(k) ==
  /\ runs[k].pending.state = "fetching"
  /\ \E o \in ProbeOutcomes :
       Resumed(k, Continue(runs[k], GetContentTypeFromServer(o), fileTypes, loadingFileTypes))

\* run k resumes after the await of a determineFileType that made no request
Resume(k) ==
  /\ runs[k].pending.state = "ready"
  /\ Resumed(k, Continue(runs[k], runs[k].pending.result, fileTypes, loadingFileTypes))

Probe == \E k \in DOMAIN runs : ProbeReturn(k)
Step == \E k \in DOMAIN runs : Resume(k)

Next ==
  \/ PointerUp /\ UNCHANGED <<normVars, dispVars, tmplVars, labelVars>>
  \/ SetOpen /\ UNCHANGED <<normVars, dispVars, tmplVars, labelVars>>
  \/ SetDisabled /\ UNCHANGED <<normVars, dispVars, tmplVars, labelVars>>
  \/ SetAttributes /\ UNCHANGED <<normVars, dispVars, tmplVars, labelVars>>
  \/ Probe /\ UNCHANGED <<normVars, dispVars, tmplVars, labelVars>>
  \/ Step /\ UNCHANGED <<normVars, dispVars, tmplVars, labelVars>>

Spec == Init /\ [][Next]_vars

\* every probe eventually returns or fails, and a resolved await resumes
FairSpec == Spec /\ WF_vars(Probe) /\ WF_vars(Step)

CompIdle ==
  /\ open = FALSE /\ disabled = FALSE /\ hide = FALSE /\ grow = FALSE
  /\ attributes = NullAttributes /\ fileTypes = <<>> /\ loadingFileTypes = <<>>
  /\ runs = <<>> /\ gen = 0 /\ notified = <<>>

IdleInit == CompIdle /\ NormInit /\ DispInit /\ TmplInit /\ LabelInit

NormNext ==
  \/ NormPick /\ UNCHANGED <<compVars, dispVars, tmplVars, labelVars>>
  \/ NormFormat /\ UNCHANGED <<compVars, dispVars, tmplVars, labelVars>>
  \/ NormParse /\ UNCHANGED <<compVars, dispVars, tmplVars, labelVars>>
  \/ NormReset /\ UNCHANGED <<compVars, dispVars, tmplVars, labelVars>>

SpecNorm == IdleInit /\ [][NormNext]_vars

DispNext ==
  \/ DispPick /\ UNCHANGED <<compVars, normVars, tmplVars, labelVars>>
  \/ DispRender /\ UNCHANGED <<compVars, normVars, tmplVars, labelVars>>

SpecDispatch == IdleInit /\ [][DispNext]_vars

LabelNext ==
  \/ LabelPick /\ UNCHANGED <<compVars, normVars, dispVars, tmplVars>>
  \/ LabelRender /\ UNCHANGED <<compVars, normVars, dispVars, tmplVars>>

SpecLabel == IdleInit /\ [][LabelNext]_vars

----------------------------------------------------------------------------
(* The body template applied to one state of the panel: SpecTemplate.  The  *)
(* state is any the props and the resolution runs can produce: the flags    *)
(* are props, and the published maps are those of a run over the current    *)
(* list or over the one it replaced.                                        *)

TemplateAttributes ==
  AttributeSets
  \cup { NullAttributes,
         [type |-> "reasoning", done |-> "true", files |-> FilesField(JArr(<<InlineRef>>))],
         [type |-> "tool_calls", done |-> "true", files |-> JUndef],
         [type |-> "tool_calls", done |-> "true", files |-> JStr(<<"n", "u", "l", "l">>)] }

TemplateMaps ==
  { <<<<>>, <<>>>>, <<<<>>, <<TRUE>>>>, <<<<<<"i", "m", "a", "g", "e", "/", "p", "n", "g">>>>, <<FALSE>>>>,
    <<<<<<"t", "e", "x", "t", "/", "x", "m", "l">>, <<>>>>, <<FALSE, FALSE>>>> }

TemplateInit ==
  /\ open \in BOOLEAN /\ hide \in BOOLEAN /\ grow \in BOOLEAN
  /\ disabled = FALSE
  /\ attributes \in TemplateAttributes
  /\ \E m \in TemplateMaps : fileTypes = m[1] /\ loadingFileTypes = m[2]
  /\ runs = <<>> /\ gen = 0 /\ notified = <<>>
  /\ NormInit /\ DispInit /\ LabelInit
  /\ tPc = "render" /\ tBody = FALSE /\ tItems = <<>>

TmplRender ==
  /\ tPc = "render"
  /\ tBody' = ToolCallsBody
  /\ tItems' = AttachmentItems
  /\ tPc' = "rendered"
  /\ UNCHANGED <<compVars, normVars, dispVars, labelVars>>

SpecTemplate == TemplateInit /\ [][TmplRender]_vars

----------------------------------------------------------------------------
(* Properties of the resolution sequencer *)

\* a remote reference: a string that is no data URL
IsRemote(file) == file.t = "str" /\ ~IsDataUrl(file.s)

\* the indices whose published loading flag is true
LoadingIndices == { k \in 1..Len(loadingFileTypes) : loadingFileTypes[k] }

\* the only run so far is the first one, over a list of remote references
FirstRunAllRemote ==
  /\ gen = 1
  /\ attributes.done = "true"
  /\ DecodedFiles(attributes).t = "arr"
  /\ \A k \in DOMAIN DecodedFiles(attributes).a : IsRemote(DecodedFiles(attributes).a[k])

\* C1: during the one run over a list of remote references, started from
\* empty maps, at most one index of the published loadingFileTypes is true.
C1_AtMostOneLoading == FirstRunAllRemote => Cardinality(LoadingIndices) <= 1

\* the first run, over a list of two or more remote references, awaits the
\* probe of its second index: that index alone is published as loading
C1_SecondProbeInFlight ==
  /\ FirstRunAllRemote
  /\ Len(runs) = 1 /\ runs[1].i = 1 /\ runs[1].pending.state = "fetching"
  /\ loadingFileTypes = <<FALSE, TRUE>>

\* run k was started for an attribute set that has been replaced since
Superseded(k) == runs[k].gen < gen

\* C2: once the attribute set has been replaced, no step of a run started for
\* the previous one modifies fileTypes or loadingFileTypes.
C2_StaleRunWritesNothing ==
  [][\A k \in DOMAIN runs :
       (Superseded(k) /\ (ProbeReturn(k) \/ Resume(k)))
         => UNCHANGED <<fileTypes, loadingFileTypes>>]_vars

\* C3: at most one updateFileTypes run is active at any instant.
C3_OneActiveRun == Len(runs) <= 1

\* C4: every run completes with no index left loading: when no run is
\* pending, loadingFileTypes[i] is false for every index, whatever list the
\* files field decodes to.
C4_NothingLoadingWhenIdle == runs = <<>> => LoadingIndices = {}

----------------------------------------------------------------------------
(* Properties of the disclosure state *)

resolutionVars == <<attributes, fileTypes, loadingFileTypes, runs, gen>>

\* C5: a pointerup while not disabled flips open, and every change of open
\* invokes onChange exactly once, with the new value, and changes nothing else.
C5_ToggleNotifiesOnce ==
  [][/\ (PointerUp /\ ~disabled) => open' = ~open
     /\ open' # open => (notified' = <<open'>> /\ UNCHANGED <<disabled, hide, grow, resolutionVars>>)
     /\ (PointerUp /\ ~open /\ open') => notified' = <<TRUE>>]_vars

\* onChange has just been called with true while a resolution run is pending
C5_NotifiedOpen == open /\ notified = <<TRUE>> /\ ~disabled /\ runs # <<>>

----------------------------------------------------------------------------
(* Properties of the presentation dispatch *)

\* the tests of the chain in their order, and the branch each selects
BranchTests(file, contentType, isLoading) ==
  << isLoading,
     StartsWith(contentType, <<"i", "m", "a", "g", "e", "/">>),
     StartsWith(contentType, <<"a", "u", "d", "i", "o", "/">>),
     StartsWith(contentType, <<"v", "i", "d", "e", "o", "/">>),
     Includes(contentType, <<"p", "d", "f">>),
     StartsWith(contentType, <<"t", "e", "x", "t", "/">>) \/ Includes(contentType, <<"j", "s", "o", "n">>) \/ Includes(contentType, <<"x", "m", "l">>),
     file # <<>>,
     TRUE >>

BranchNames ==
  <<"loading", "image", "audio", "video", "document", "text", "generic", "nothing">>

\* the branch of the first test that holds
FirstBranch(file, contentType, isLoading) ==
  LET tests == BranchTests(file, contentType, isLoading)
      first == CHOOSE k \in 1..8 : tests[k] /\ \A j \in 1..(k - 1) : ~tests[j]
  IN BranchNames[first]

\* C7: the branch rendered for an item is the one of the first test that
\* holds, in the order loading, image/, audio/, video/, pdf, text/ or json or
\* xml, non-empty reference, nothing; loading wins over every type, and
\* application/pdf without loading selects the document viewer.
C7_DispatchPrecedence ==
  dPc = "pick" =>
    /\ dBranch = FirstBranch(dFile.s, dType, dLoading)
    /\ dLoading => dBranch = "loading"
    /\ (~dLoading /\ dType = <<"a", "p", "p", "l", "i", "c", "a", "t", "i", "o", "n", "/", "p", "d", "f">>) => dBranch = "document"

\* a type that is both pdf and json has been dispatched to the document viewer
C7_PdfBeforeText ==
  /\ dPc = "pick" /\ ~dLoading
  /\ dType = <<"a", "p", "p", "l", "i", "c", "a", "t", "i", "o", "n", "/", "p", "d", "f", "+", "j", "s", "o", "n">>
  /\ dBranch = "document"

\* C8 as claimed: while open is false or hide is true no attachment branch is
\* rendered.
C8_ItemsOnlyWhenOpen ==
  (tPc = "rendered" /\ (~open \/ hide)) => tItems = <<>>

\* C8 as amended: the arguments and result block is rendered only while open
\* and not hidden; the attachment items are rendered, one branch per index,
\* whenever type is tool_calls, grow is false, done is 'true' and the decoded
\* files is a list, whatever open and hide are.
C8_ItemsWhateverOpen ==
  tPc = "rendered" =>
    /\ tBody => (open /\ ~hide)
    /\ Len(tItems) =
         IF /\ attributes.type = "tool_calls" /\ ~grow /\ attributes.done = "true"
            /\ DecodedFiles(attributes).t = "arr"
         THEN Len(DecodedFiles(attributes).a) ELSE 0

\* an attachment is rendered while the panel is closed
C8_RenderedWhileClosed == tPc = "rendered" /\ ~open /\ ~tBody /\ Len(tItems) > 0

----------------------------------------------------------------------------
(* Properties of the normalizer *)

\* C9: parseJSONString(formatJSONString(x)) = x for every list or object x.
C9_RoundTrip ==
  (nPc = "done" /\ nIn.t \in {"arr", "obj"}) => nOut = nIn

\* C10: formatJSONString returns a string that JSON.parse rejects unchanged;
\* a quoted string stands for a primitive and an indented serialization for a
\* list or an object.
C10_UnparsedUnchanged ==
  (nPc \in {"parse", "done"} /\ nIn.t = "str" /\ ~JSONParse(nIn).ok) => nFmt = nIn.s
----------------------------------------------------------------------------
(* Properties of the header label *)

ThoughtKeys == {"Thought for {{DURATION}} seconds", "Thought for {{DURATION}}"}

\* C11: the label of a reasoning panel reflects completion alone: it is a
\* 'Thought for ...' form whenever done is 'true', for every duration, 0 and
\* absent included, and 'Thinking...' only while done is not 'true'.
C11_LabelFollowsDone ==
  (lPc = "pick" /\ lAttr.type = "reasoning" /\ lTitle.t # "null") =>
    /\ lAttr.done = "true" => lLabel.key \in ThoughtKeys
    /\ lAttr.done # "true" => lLabel.key = "Thinking..."
----------------------------------------------------------------------------
(* Properties of the published resolution state *)

\* the list the attachment items are rendered from
CurrentFiles == Elements(DecodedFiles(attributes))

\* a probe for index idx has started and has not returned
ProbeInFlight(idx) ==
  \E k \in DOMAIN runs : runs[k].i = idx /\ runs[k].pending.state = "fetching"

\* the only run so far is the first one, over a list of references
FirstRunOverReferences ==
  gen = 1 /\ attributes.done = "true" /\ \A k \in DOMAIN CurrentFiles : CurrentFiles[k].t = "str"

\* C12: for every index i of the current files list, the published
\* loadingFileTypes[i] is true exactly while a probe for i has started and has
\* not returned; it is false again before index i + 1 is processed, remote or
\* inline.  Stated for the first run of a panel, over a list of references.
C12_LoadingIffProbeInFlight ==
  FirstRunOverReferences =>
    \A idx \in 0..(Len(CurrentFiles) - 1) : IsLoadingAt(idx) <=> ProbeInFlight(idx)

\* the types a run can resolve for the reference file
TypesOf(file) ==
  IF IsDataUrl(file.s) THEN {GetDataUrlMimeType(file.s)}
  ELSE IF file.s # <<>> THEN {GetContentTypeFromServer(o) : o \in ProbeOutcomes}
  ELSE {<<>>}

\* C13: once the decoded files list has been replaced and its run has
\* started, no index of the new list is presented with a fileTypes value
\* computed for the previous list: a published fileTypes[i] is a type resolved
\* for the reference now at index i.
C13_NoTypeOfPreviousList ==
  attributes.done = "true" =>
    \A k \in DOMAIN CurrentFiles :
      (CurrentFiles[k].t = "str" /\ k <= Len(fileTypes)) => fileTypes[k] \in TypesOf(CurrentFiles[k])

\* an inline-data reference: a string that is a data URL
IsInline(file) == file.t = "str" /\ IsDataUrl(file.s)

\* C14: no probe is ever issued for an inline-data reference, and the
\* published loadingFileTypes of an index that holds an inline-data reference
\* is never true, also when the list is replaced while a run is in progress.
C14_InlineNeverLoading ==
  /\ \A k \in DOMAIN runs :
       IsInline(runs[k].files[runs[k].i + 1]) => runs[k].pending.state # "fetching"
  /\ \A k \in DOMAIN CurrentFiles : IsInline(CurrentFiles[k]) => ~IsLoadingAt(k - 1)

----------------------------------------------------------------------------
(* Properties of the steps of a run *)

\* the outcomes of a probe that failed: a network error or no content-type
FailedOutcomes == { o \in ProbeOutcomes : o.kind # "header" }

AllReferences(files) == \A j \in DOMAIN files : files[j].t = "str"

\* C15: a probe that fails, by a network error or a missing content-type
\* header, aborts nothing: the run over a list of references records '' for
\* its index and goes on to the next index, or, at the last index, completes
\* and publishes fileTypes with an entry for every index and no index loading.
C15_ProbeFailureAbsorbed ==
  [][\A k \in DOMAIN runs : \A o \in FailedOutcomes :
       LET r == runs[k] IN
       ( /\ r.pending.state = "fetching"
         /\ AllReferences(r.files)
         /\ Resumed(k, Continue(r, GetContentTypeFromServer(o), fileTypes, loadingFileTypes)) )
       => IF r.i + 1 < Len(r.files)
          THEN /\ Len(runs') = Len(runs)
               /\ runs'[k].i = r.i + 1
               /\ runs'[k].newFileTypes = Append(r.newFileTypes, <<>>)
          ELSE /\ runs' = RemoveAt(runs, k)
               /\ fileTypes' = Append(r.newFileTypes, <<>>)
               /\ Len(fileTypes') = Len(r.files)
               /\ loadingFileTypes' = [j \in DOMAIN r.files |-> FALSE]]_vars

\* the first run over two remote references has completed: the probe of
\* index 0 failed and the probe of index 1 was answered
C15_FailedThenResolved ==
  /\ gen = 1 /\ runs = <<>>
  /\ fileTypes = <<<<>>, <<"i", "m", "a", "g", "e", "/", "p", "n", "g">>>>
  /\ loadingFileTypes = <<FALSE, FALSE>>

\* the indices run r has started a probe for that has not returned, by its
\* own record newLoadingStates
OwnProbes(r) == { j \in DOMAIN r.newLoadingStates : r.newLoadingStates[j] }

\* C16: within one run the indices are processed in ascending order, one at a
\* time: a run starts at index 0, every step of it advances its index by one,
\* the results of exactly the indices below the current one are recorded, and
\* the only probe of the run that can be in flight is the one of its current
\* index.
C16_ProbesInOrder ==
  [][/\ \A k \in DOMAIN runs' :
          LET r == runs'[k] IN
          /\ Len(r.newFileTypes) = r.i
          /\ OwnProbes(r) \subseteq {r.i + 1}
          /\ r.pending.state = "fetching" => OwnProbes(r) = {r.i + 1}
     /\ \A k \in DOMAIN runs :
          ((ProbeReturn(k) \/ Resume(k)) /\ Len(runs') = Len(runs)) => runs'[k].i = runs[k].i + 1
     /\ Len(runs') > Len(runs) => runs'[Len(runs')].i = 0]_vars

\* two runs await the probe of their second index, each with that probe alone
\* in flight
C16_TwoRunsSecondProbe ==
  /\ Len(runs) = 2
  /\ \A k \in DOMAIN runs :
       runs[k].i = 1 /\ runs[k].pending.state = "fetching" /\ runs[k].newLoadingStates = <<FALSE, TRUE>>

----------------------------------------------------------------------------
(* Properties of the reactive trigger *)

\* this step starts a run over the list the new attribute set decodes to: the
\* run is suspended at its first await, or, the list being empty, it has
\* returned and published two empty maps
StartsRun ==
  \/ /\ Len(runs') = Len(runs) + 1
     /\ runs'[Len(runs')].files = Elements(DecodedFiles(attributes'))
     /\ runs'[Len(runs')].i = 0
  \/ /\ Elements(DecodedFiles(attributes')) = <<>>
     /\ runs' = runs /\ fileTypes' = <<>> /\ loadingFileTypes' = <<>>

----------------------------------------------------------------------------
(* Independence of the disclosure state and the resolution state *)

\* C18: an assignment of the attribute set and every step of a resolution
\* run leave open unchanged and call no onChange; a pointerup on the header
\* leaves the attribute set, fileTypes and loadingFileTypes unchanged and
\* starts or resumes no run.
C18_DisclosureIndependent ==
  [][/\ (SetAttributes \/ \E k \in DOMAIN runs : ProbeReturn(k) \/ Resume(k))
          => (open' = open /\ notified' = <<>>)
     /\ PointerUp => UNCHANGED resolutionVars]_vars

\* an open panel whose first run has completed and published a type, the
\* last handler having called no onChange
C18_OpenAndResolved ==
  /\ open /\ ~disabled /\ notified = <<>>
  /\ gen = 1 /\ runs = <<>> /\ Len(fileTypes) = 1 /\ fileTypes[1] # <<>>

----------------------------------------------------------------------------
(* Properties of the recursion of the normalizer *)

RECURSIVE FramesAt(_, _)
\* the number of nested calls parseJSONString(str) makes, itself included,
\* with room for depth frames on the stack: the call that finds no room
\* raises RangeError and counts for none
FramesAt(str, depth) ==
  IF depth = 0 THEN 0
  ELSE LET r == JSONParse(str) IN
    IF r.ok THEN 1 + FramesAt(r.v, depth - 1) ELSE 1

RECURSIVE Layers(_)
\* the JSON-encoding layers of v: how many times a string parses, until the
\* result is a non-string value or a string that does not parse
Layers(v) ==
  IF v.t = "str" /\ JSONParse(v).ok THEN 1 + Layers(JSONParse(v).v) ELSE 0

\* C19: the recursion depth of parseJSONString is bounded by the number of
\* JSON-encoding layers of its input: one call per layer and the call that
\* stops at a non-string value or at a string that does not parse.
C19_DepthBoundedByLayers ==
  nPc \in {"parse", "done"} => FramesAt(nIn, MaxStack) <= Layers(nIn) + 1

----------------------------------------------------------------------------
(* Properties of the publication of fileTypes *)

\* C20: a run assigns the published fileTypes once, when it ends, with an
\* entry for every index: starting a run and every step that leaves it
\* suspended leave fileTypes unchanged, the step that changes fileTypes ends
\* the run at its last index and publishes the results recorded so far and
\* one entry per index, and during the first run of a panel fileTypes is
\* empty, so that every index is dispatched with the type ''.
C20_TypesPublishedAtEnd ==
  [][/\ \A k \in DOMAIN runs :
          LET r == runs[k] IN
          (ProbeReturn(k) \/ Resume(k)) =>
            /\ Len(runs') = Len(runs) => fileTypes' = fileTypes
            /\ fileTypes' # fileTypes =>
                 /\ runs' = RemoveAt(runs, k)
                 /\ r.i + 1 = Len(r.files)
            /\ (r.i + 1 = Len(r.files)) =>
                 /\ Len(fileTypes') = Len(r.files)
                 /\ SubSeq(fileTypes', 1, r.i) = r.newFileTypes
     /\ Len(runs') > Len(runs) => fileTypes' = fileTypes
     /\ (gen' = 1 /\ runs' # <<>>) => fileTypes' = <<>>]_vars

\* the first run over two remote references awaits its second probe: the
\* first was answered image/png, its loading flag is false, and index 0 is
\* rendered by the generic branch
C20_ResolvedButGeneric ==
  /\ gen = 1 /\ Len(runs) = 1 /\ runs[1].i = 1
  /\ runs[1].newFileTypes = <<<<"i", "m", "a", "g", "e", "/", "p", "n", "g">>>>
  /\ ~IsLoadingAt(0) /\ ContentTypeAt(0) = <<>>
  /\ AttachmentItems[1] = "generic"

====
